---- MODULE Spec2Model ----
(***************************************************************************)
(* A model of signed-decimal64: SignedDecimalU64<S>, a sign flag over the  *)
(* unsigned fixed-scale magnitude DecimalU64<S> of the decimal64 crate.    *)
(*                                                                         *)
(* A value is the record [negative, mag]; mag is the magnitude's unscaled  *)
(* integer (the field mag.unscaled of the source).  The scale S is a type  *)
(* parameter in the source and an explicit argument here.                  *)
(*                                                                         *)
(* TLC's integers are 32 bits wide, so the machine word u64 is modelled    *)
(* with WordBits bits: U64_MAX is 2^WordBits - 1, every checked primitive  *)
(* overflows above U64_MAX and every wrapping one works modulo             *)
(* 2^WordBits.  The scales U0..U8 of the source are 0..MaxScale here, and  *)
(* MaxScale is chosen, as in the source, so that 10^MaxScale fits a word.  *)
(***************************************************************************)
EXTENDS Integers, Sequences, FiniteSets, TLC

\* ---------------------------------------------------------------- bounds
\* Width of the modelled u64 word.
WordBits == 8
\* Largest scale modelled (the source has U0..U8).
MaxScale == 1
\* Largest dp argument tried (above MaxScale, so that the clamp happens).
MaxDp == 2
\* Right-hand operands of binary operations are the magnitudes within
\* OperandEdge of 0 and of U64_MAX, and the one and the half of each scale.
OperandEdge == 2
\* Longest sequence given to sum and product.
MaxLen == 3

U64_MAX == 2^WordBits - 1
U64_MOD == 2^WordBits
Scales == 0..MaxScale
Bits == {FALSE, TRUE}
Mags == 0..U64_MAX
OperandMags ==
    {m \in Mags : \/ m <= OperandEdge
                  \/ m >= U64_MAX - OperandEdge
                  \/ \E s \in Scales : m = 10^s \/ 2 * m = 10^s}
Dps == 0..MaxDp

\* ------------------------------------------------------ results of calls
\* Option<u64> / Option<DecimalU64<S>>
MagNone == [some |-> FALSE, m |-> 0]
MagSome(m) == [some |-> TRUE, m |-> m]

\* ---------------------------------------------------------- core::u64
u64_checked_add(x, y) == IF x + y > U64_MAX THEN MagNone ELSE MagSome(x + y)
\* u64::wrapping_mul in the place of u64::checked_mul.
u64_wrapping_mul(x, y) == MagSome((x * y) % U64_MOD)

u64_checked_mul(x, y) == IF x * y > U64_MAX THEN MagNone ELSE MagSome(x * y)
\* x * y without a check: a panic where overflow checks are compiled in
\* (oc), a wrapped product where they are not.
u64_mul(x, y, oc) ==
    [panic |-> oc /\ x * y > U64_MAX, n |-> (x * y) % U64_MOD]
\* x << 1: the bit shifted out is lost in every build.
u64_shl1(x) == (x * 2) % U64_MOD

\* ------------------------------------------------------------- lib.rs
\* The table of pow10_u64 holds every power of ten that fits a word
\* (0..19 for 64 bits); any other exponent panics.
Pow10Limit ==
    CHOOSE n \in 0..WordBits : 10^n <= U64_MAX /\ 10^(n + 1) > U64_MAX

pow10_u64(n) ==
    IF n \in 0..Pow10Limit THEN [panic |-> FALSE, n |-> 10^n]
                           ELSE [panic |-> TRUE, n |-> 0]

\* new without the normalization of the sign.
new_raw(negative, mag) == [negative |-> negative, mag |-> mag]

new(negative, mag) ==
    LET neg == negative /\ mag # 0
    IN  [negative |-> neg, mag |-> mag]

from_mag(mag) == new(FALSE, mag)

from_unscaled(unscaled) == unscaled

unscaled(x) == x.mag

is_negative(x) == x.negative /\ x.mag # 0

is_zero(x) == x.mag = 0

\* negated that clears the sign flag where it should flip it.
negated_clears_sign(x) ==
    IF x.mag = 0 THEN x ELSE [negative |-> FALSE, mag |-> x.mag]

negated(x) ==
    IF x.mag = 0 THEN x ELSE [negative |-> ~x.negative, mag |-> x.mag]

abs(x) == [negative |-> FALSE, mag |-> x.mag]

ZERO == [negative |-> FALSE, mag |-> 0]

ONE(S) == [negative |-> FALSE, mag |-> 10^S]

into_unscaled_i128(x) ==
    IF x.negative /\ x.mag # 0 THEN 0 - x.mag ELSE x.mag

\* try_into_unsigned that hands out the magnitude of a negative value.
try_into_unsigned_unchecked(self) == MagSome(self.mag)

try_into_unsigned(self) ==
    IF is_negative(self) THEN MagNone ELSE MagSome(self.mag)

\* assert!(!self.is_negative()), then self.mag
expect_non_negative(self) ==
    IF ~(~is_negative(self)) THEN [panic |-> TRUE, m |-> 0]
    ELSE [panic |-> FALSE, m |-> self.mag]

\* Option<Self>, with the third outcome of a call: it panicked.
Some(x) == [kind |-> "some", val |-> x]
None == [kind |-> "none", val |-> ZERO]
Panic == [kind |-> "panic", val |-> ZERO]
\* Result<Self, E>: Ok(x) is Some(x), Err(e) carries the error's name.
Err(e) == [kind |-> e, val |-> ZERO]

\* Option::map(|m| Self::new(neg, m))
map_new(r, neg) == IF r.some THEN Some(new(neg, r.m)) ELSE None

\* Option::unwrap_or_default in the place of Option::expect.
expect_or_default(r) == IF r.kind = "some" THEN r ELSE Some(ZERO)

\* Option::expect
expect(r) == IF r.kind = "some" THEN r ELSE Panic

\* abs_assign: self.negative = false
abs_assign(x) == [x EXCEPT !.negative = FALSE]

\* i128 and i64 are modelled, like u64, twice and once as wide as the
\* word.
I128_MIN == 0 - 2^(2 * WordBits - 1)
I128_MAX == 2^(2 * WordBits - 1) - 1
I64_MIN == 0 - 2^(WordBits - 1)
I64_MAX == 2^(WordBits - 1) - 1

\* i128::checked_abs
i128_checked_abs(value) ==
    IF value = I128_MIN THEN [some |-> FALSE, m |-> 0]
    ELSE [some |-> TRUE, m |-> IF value < 0 THEN 0 - value ELSE value]

\* try_from without the comparison of abs with u64::MAX: abs as u64
\* keeps the low word.
try_from_i128_truncating(value) ==
    LET neg == value < 0
        abs_ == i128_checked_abs(value)
    IN  IF ~abs_.some THEN Err("Overflow")
        ELSE Some(new(neg, abs_.m % U64_MOD))

try_from_i128(value) ==
    LET neg == value < 0
        abs_ == i128_checked_abs(value)
    IN  IF ~abs_.some THEN Err("Overflow")
        ELSE IF abs_.m > U64_MAX THEN Err("Overflow")
        ELSE Some(new(neg, abs_.m % U64_MOD))

try_from_i64(value) == try_from_i128(value)

\* ------------------------------------------- decimal64::DecimalU64<S>
\* The magnitude engine is an external crate; its contract is that of
\* section 6 of the specification and of the crate's tests here
\* (scale 2: 1.50 * 0.50 = 0.75, 1.50 / 0.50 = 3.00).  Whether it rounds
\* an inexact product or quotient down or to nearest is not stated, so
\* the rounding rnd is an input every caller chooses freely.
EngineRoundings == {"down", "nearest"}

engine_scaled(num, den, rnd) ==
    IF rnd = "nearest" /\ 2 * (num % den) >= den
    THEN (num \div den) + 1
    ELSE num \div den

DecimalU64_checked_add(a, b) ==
    IF a + b > U64_MAX THEN MagNone ELSE MagSome(a + b)

DecimalU64_checked_sub(a, b) ==
    IF b > a THEN MagNone ELSE MagSome(a - b)

DecimalU64_checked_mul(a, b, S, rnd) ==
    LET m == engine_scaled(a * b, 10^S, rnd)
    IN  IF m > U64_MAX THEN MagNone ELSE MagSome(m)

DecimalU64_checked_div(a, b, S, rnd) ==
    IF b = 0 THEN MagNone
    ELSE LET m == engine_scaled(a * 10^S, b, rnd)
         IN  IF m > U64_MAX THEN MagNone ELSE MagSome(m)

\* Text is a sequence of one-character strings.
Digit == {"0", "1", "2", "3", "4", "5", "6", "7", "8", "9"}

DigitChar(d) ==
    CASE d = 0 -> "0" [] d = 1 -> "1" [] d = 2 -> "2" [] d = 3 -> "3"
      [] d = 4 -> "4" [] d = 5 -> "5" [] d = 6 -> "6" [] d = 7 -> "7"
      [] d = 8 -> "8" [] d = 9 -> "9"

DigitValue(c) == CHOOSE d \in 0..9 : DigitChar(d) = c

\* The decimal digits of n, at least width of them.
RECURSIVE Digits(_, _)
Digits(n, width) ==
    IF n < 10 /\ width <= 1 THEN <<DigitChar(n)>>
    ELSE Append(Digits(n \div 10, width - 1), DigitChar(n % 10))

\* Display of the magnitude: INTEGER, and for a scale above 0 a point
\* and exactly S fraction digits.
DecimalU64_display(m, S) ==
    IF S = 0 THEN Digits(m, 1)
    ELSE Digits(m \div 10^S, 1) \o <<".">> \o Digits(m % 10^S, S)

\* The value of a sequence of digits; above Cap the value stays above
\* Cap (the text is then out of range whatever follows).
RECURSIVE DigitsValue(_, _)
DigitsValue(t, Cap) ==
    IF t = <<>> THEN 0
    ELSE LET hi == DigitsValue(SubSeq(t, 1, Len(t) - 1), Cap)
         IN  IF hi > Cap THEN hi ELSE hi * 10 + DigitValue(t[Len(t)])

\* FromStr of the magnitude: the canonical text and nothing else, with
\* any number of leading zeros; absent when the text is not of that
\* form or its value does not fit the word.
DecimalU64_from_str(t, S) ==
    LET dots == {i \in 1..Len(t) : t[i] = "."}
        int == IF dots = {} THEN t
               ELSE SubSeq(t, 1, (CHOOSE i \in dots : TRUE) - 1)
        frac == IF dots = {} THEN <<>>
                ELSE SubSeq(t, (CHOOSE i \in dots : TRUE) + 1, Len(t))
        wellformed ==
            /\ Cardinality(dots) = (IF S = 0 THEN 0 ELSE 1)
            /\ int # <<>>
            /\ Len(frac) = S
            /\ \A i \in 1..Len(t) : t[i] \in Digit \/ t[i] = "."
    IN  IF ~wellformed THEN MagNone
        ELSE LET n == DigitsValue(int \o frac, U64_MAX)
             IN  IF n > U64_MAX THEN MagNone ELSE MagSome(n)

\* ------------------------------------------- lib.rs: impl Display
\* Display that never writes the sign.
display_unsigned(self, S) == DecimalU64_display(self.mag, S)

display(self, S) ==
    IF is_negative(self) THEN <<"-">> \o DecimalU64_display(self.mag, S)
    ELSE DecimalU64_display(self.mag, S)

\* ----------------------------------------------------------- error.rs
\* str::trim, for the one white-space character of the texts tried.
RECURSIVE trim(_)
trim(t) ==
    IF t # <<>> /\ t[1] = " " THEN trim(Tail(t))
    ELSE IF t # <<>> /\ t[Len(t)] = " " THEN trim(SubSeq(t, 1, Len(t) - 1))
    ELSE t

\* from_str without the second emptiness check, the one after the sign.
from_str_sign_unchecked(s_in, S) ==
    LET s == trim(s_in)
    IN  IF s = <<>> THEN Err("Empty")
        ELSE
        LET neg == s[1] = "-"
            rest == IF s[1] \in {"+", "-"} THEN Tail(s) ELSE s
            mag == DecimalU64_from_str(rest, S)
        IN  IF ~mag.some THEN Err("InvalidMagnitude")
            ELSE Some(new(neg, mag.m))

from_str(s_in, S) ==
    LET s == trim(s_in)
    IN  IF s = <<>> THEN Err("Empty")
        ELSE
        LET neg == s[1] = "-"
            rest == IF s[1] \in {"+", "-"} THEN Tail(s) ELSE s
        IN  IF rest = <<>> THEN Err("Empty")
            ELSE LET mag == DecimalU64_from_str(rest, S)
                 IN  IF ~mag.some THEN Err("InvalidMagnitude")
                     ELSE Some(new(neg, mag.m))

\* ----------------------------------------------------------- serde.rs
\* The binary encoding without the sign.
serialize_binary_unsigned(self) == unscaled(self)

\* Serialize with a serializer that is not human readable: the i128
\* handed to serialize_i128.
serialize_binary(self) ==
    IF is_negative(self) THEN 0 - unscaled(self) ELSE unscaled(self)

\* The two custom errors of the decoder are told apart by name.
from_signed_unscaled(v_in) ==
    IF v_in = I128_MIN THEN Err("Underflow")
    ELSE LET neg == v_in < 0
             mag_u128 == IF neg THEN 0 - v_in ELSE v_in
         IN  IF mag_u128 > U64_MAX THEN Err("TooLarge")
             ELSE Some(new(neg, from_unscaled(mag_u128 % U64_MOD)))

\* Visitor::visit_i128
visit_i128(v_in) == from_signed_unscaled(v_in)

\* ------------------------------------------------------ arithmetic.rs
\* checked_add with the sign of the wrong operand in the first
\* opposite-sign branch.
checked_add_wrong_sign(self, rhs) ==
    LET a_mag == self.mag
        b_mag == rhs.mag
        a_neg == self.negative /\ a_mag # 0
        b_neg == rhs.negative /\ b_mag # 0
    IN  CASE ~a_neg /\ ~b_neg ->
               map_new(DecimalU64_checked_add(a_mag, b_mag), FALSE)
          [] a_neg /\ b_neg ->
               map_new(DecimalU64_checked_add(a_mag, b_mag), TRUE)
          [] OTHER ->
               IF a_mag >= b_mag
               THEN map_new(DecimalU64_checked_sub(a_mag, b_mag), b_neg)
               ELSE map_new(DecimalU64_checked_sub(b_mag, a_mag), b_neg)

checked_add(self, rhs) ==
    LET a_mag == self.mag
        b_mag == rhs.mag
        a_neg == self.negative /\ a_mag # 0
        b_neg == rhs.negative /\ b_mag # 0
    IN  CASE ~a_neg /\ ~b_neg ->
               map_new(DecimalU64_checked_add(a_mag, b_mag), FALSE)
          [] a_neg /\ b_neg ->
               map_new(DecimalU64_checked_add(a_mag, b_mag), TRUE)
          [] OTHER ->
               IF a_mag >= b_mag
               THEN map_new(DecimalU64_checked_sub(a_mag, b_mag), a_neg)
               ELSE map_new(DecimalU64_checked_sub(b_mag, a_mag), b_neg)

\* checked_sub that forgets to negate its right operand.
checked_sub_unnegated(self, rhs) == checked_add(self, rhs)

checked_sub(self, rhs) == checked_add(self, negated(rhs))

\* checked_mul with the signs combined by AND.
checked_mul_and_sign(self, rhs, S, rnd) ==
    LET a_mag == self.mag
        b_mag == rhs.mag
    IN  IF a_mag = 0 \/ b_mag = 0 THEN Some(ZERO)
        ELSE LET neg == (self.negative /\ a_mag # 0)
                          /\ (rhs.negative /\ b_mag # 0)
             IN  map_new(DecimalU64_checked_mul(a_mag, b_mag, S, rnd), neg)

checked_mul(self, rhs, S, rnd) ==
    LET a_mag == self.mag
        b_mag == rhs.mag
    IN  IF a_mag = 0 \/ b_mag = 0 THEN Some(ZERO)
        ELSE LET neg == (self.negative /\ a_mag # 0)
                          # (rhs.negative /\ b_mag # 0)
             IN  map_new(DecimalU64_checked_mul(a_mag, b_mag, S, rnd), neg)

\* checked_div with the zero-numerator shortcut ahead of the divisor
\* check.
checked_div_numerator_first(self, rhs, S, rnd) ==
    LET a_mag == self.mag
        b_mag == rhs.mag
    IN  IF a_mag = 0 THEN Some(ZERO)
        ELSE IF b_mag = 0 THEN None
        ELSE LET neg == (self.negative /\ a_mag # 0)
                          # (rhs.negative /\ b_mag # 0)
             IN  map_new(DecimalU64_checked_div(a_mag, b_mag, S, rnd), neg)

checked_div(self, rhs, S, rnd) ==
    LET a_mag == self.mag
        b_mag == rhs.mag
    IN  IF b_mag = 0 THEN None
        ELSE IF a_mag = 0 THEN Some(ZERO)
        ELSE LET neg == (self.negative /\ a_mag # 0)
                          # (rhs.negative /\ b_mag # 0)
             IN  map_new(DecimalU64_checked_div(a_mag, b_mag, S, rnd), neg)

\* The operators +, -, *, /: the checked form, then Option::expect.
add(self, rhs) == expect(checked_add(self, rhs))

sub(self, rhs) == expect(checked_sub(self, rhs))

mul(self, rhs, S, rnd) == expect(checked_mul(self, rhs, S, rnd))

div(self, rhs, S, rnd) == expect(checked_div(self, rhs, S, rnd))

Default == ZERO

\* Compound assignment, *self = mem::take(self) <op> rhs: the receiver
\* is Default from the take until the operator's result is stored, so
\* it is Default when the operator panics.
\* The assignment that takes the receiver and never stores the result.
assigned_not_stored(r) == [out |-> r, self |-> Default]

assigned(r) ==
    [out |-> r, self |-> IF r.kind = "some" THEN r.val ELSE Default]

\* add_assign on a copy of the receiver, *self = *self + rhs: the
\* receiver keeps its value when the operator panics.
add_assign_untaken(self, rhs) ==
    LET r == add(self, rhs)
    IN  [out |-> r, self |-> IF r.kind = "some" THEN r.val ELSE self]

add_assign(self, rhs) == assigned(add(self, rhs))

sub_assign(self, rhs) == assigned(sub(self, rhs))

mul_assign(self, rhs, S, rnd) == assigned(mul(self, rhs, S, rnd))

div_assign(self, rhs, S, rnd) == assigned(div(self, rhs, S, rnd))

\* The operators with a magnitude (DecimalU64 or &DecimalU64) on the
\* right.
add_mag(self, rhs) == add(self, from_mag(rhs))

sub_mag(self, rhs) == sub(self, from_mag(rhs))

add_mag_ref(self, rhs) == LET mag == rhs IN add(self, from_mag(mag))

sub_mag_ref(self, rhs) == LET mag == rhs IN sub(self, from_mag(mag))

add_assign_mag(self, rhs) == assigned(add(self, from_mag(rhs)))

sub_assign_mag(self, rhs) == assigned(sub(self, from_mag(rhs)))

add_assign_mag_ref(self, rhs) ==
    LET mag == rhs IN assigned(add(self, from_mag(mag)))

sub_assign_mag_ref(self, rhs) ==
    LET mag == rhs IN assigned(sub(self, from_mag(mag)))

\* impl Sum and impl Product: Iterator::fold from the left; a panic of
\* the closure ends the fold.  A sequence stands for the iterator.
\* sum folding from the right: x1 + (x2 + (... + ZERO)).
RECURSIVE sum_from_the_right(_)
sum_from_the_right(iter) ==
    IF iter = <<>> THEN Some(ZERO)
    ELSE LET acc == sum_from_the_right(Tail(iter))
         IN  IF acc.kind = "panic" THEN Panic
             ELSE add(Head(iter), acc.val)

RECURSIVE sum(_)
sum(iter) ==
    IF iter = <<>> THEN Some(ZERO)
    ELSE LET acc == sum(SubSeq(iter, 1, Len(iter) - 1))
             x == iter[Len(iter)]
         IN  IF acc.kind = "panic" THEN Panic
             ELSE add(acc.val, x)

\* Sum<&'a SignedDecimalU64<S>>
RECURSIVE sum_ref(_)
sum_ref(iter) ==
    IF iter = <<>> THEN Some(ZERO)
    ELSE LET acc == sum_ref(SubSeq(iter, 1, Len(iter) - 1))
             x == iter[Len(iter)]
         IN  IF acc.kind = "panic" THEN Panic
             ELSE LET v == new(is_negative(x), from_unscaled(unscaled(x)))
                  IN  add(acc.val, v)

RECURSIVE product(_, _, _)
product(iter, S, rnd) ==
    IF iter = <<>> THEN Some(ONE(S))
    ELSE LET acc == product(SubSeq(iter, 1, Len(iter) - 1), S, rnd)
             x == iter[Len(iter)]
         IN  IF acc.kind = "panic" THEN Panic
             ELSE mul(acc.val, x, S, rnd)

\* Product<&'a SignedDecimalU64<S>>
RECURSIVE product_ref(_, _, _)
product_ref(iter, S, rnd) ==
    IF iter = <<>> THEN Some(ONE(S))
    ELSE LET acc == product_ref(SubSeq(iter, 1, Len(iter) - 1), S, rnd)
             x == iter[Len(iter)]
         IN  IF acc.kind = "panic" THEN Panic
             ELSE LET v == new(is_negative(x), from_unscaled(unscaled(x)))
                  IN  mul(acc.val, v, S, rnd)

\* ----------------------------------------------------------- round.rs
RoundingMode ==
    {"TowardZero", "AwayFromZero", "Ceil", "Floor",
     "HalfUp", "HalfDown", "HalfEven"}

\* should_increment with the tie of HalfDown going away from zero.
should_increment_half_down_tie(q, r, unit, neg, mode) ==
    IF r = 0 THEN FALSE
    ELSE CASE mode = "TowardZero" -> FALSE
           [] mode = "AwayFromZero" -> TRUE
           [] mode = "Ceil" -> ~neg
           [] mode = "Floor" -> neg
           [] mode = "HalfUp" -> u64_shl1(r) >= unit
           [] mode = "HalfDown" -> u64_shl1(r) >= unit
           [] mode = "HalfEven" ->
                LET twice == u64_shl1(r)
                IN  IF twice > unit THEN TRUE
                    ELSE IF twice < unit THEN FALSE
                    ELSE (q % 2) = 1

should_increment(q, r, unit, neg, mode) ==
    IF r = 0 THEN FALSE
    ELSE CASE mode = "TowardZero" -> FALSE
           [] mode = "AwayFromZero" -> TRUE
           [] mode = "Ceil" -> ~neg
           [] mode = "Floor" -> neg
           [] mode = "HalfUp" -> u64_shl1(r) >= unit
           [] mode = "HalfDown" -> u64_shl1(r) > unit
           [] mode = "HalfEven" ->
                LET twice == u64_shl1(r)
                IN  IF twice > unit THEN TRUE
                    ELSE IF twice < unit THEN FALSE
                    ELSE (q % 2) = 1

Min(x, y) == IF x <= y THEN x ELSE y

\* checked_round_dp without the clamp dp.min(scale): scale - dp is a
\* u32 subtraction, which panics below zero.
checked_round_dp_no_clamp(self, S, dp0, mode, oc) ==
    LET scale == S
        dp == dp0
    IN  IF dp > scale THEN Panic
        ELSE
        LET drop == scale - dp IN
        IF drop = 0 THEN Some(self)
        ELSE
        LET p == pow10_u64(drop) IN
        IF p.panic THEN Panic
        ELSE
        LET unit == p.n
            u == unscaled(self)
            q == u \div unit
            r == u % unit
        IN  IF r = 0
            THEN LET e == u64_mul(q, unit, oc)
                 IN  IF e.panic THEN Panic
                     ELSE Some(new(is_negative(self), from_unscaled(e.n)))
            ELSE
            LET inc == should_increment(q, r, unit, is_negative(self), mode)
                q2 == u64_checked_add(q, IF inc THEN 1 ELSE 0)
            IN  IF ~q2.some THEN None
                ELSE
                LET new_unscaled == u64_checked_mul(q2.m, unit)
                IN  IF ~new_unscaled.some THEN None
                    ELSE Some(new(is_negative(self),
                                  from_unscaled(new_unscaled.m)))

\* checked_round_dp that builds its result without the sign.
checked_round_dp_unsigned(self, S, dp0, mode, oc) ==
    LET scale == S
        dp == Min(dp0, scale)
        drop == scale - dp
    IN  IF drop = 0 THEN Some(self)
        ELSE
        LET p == pow10_u64(drop) IN
        IF p.panic THEN Panic
        ELSE
        LET unit == p.n
            u == unscaled(self)
            q == u \div unit
            r == u % unit
        IN  IF r = 0
            THEN LET e == u64_mul(q, unit, oc)
                 IN  IF e.panic THEN Panic
                     ELSE Some(new(FALSE, from_unscaled(e.n)))
            ELSE
            LET inc == should_increment(q, r, unit, is_negative(self), mode)
                q2 == u64_checked_add(q, IF inc THEN 1 ELSE 0)
            IN  IF ~q2.some THEN None
                ELSE
                LET new_unscaled == u64_checked_mul(q2.m, unit)
                IN  IF ~new_unscaled.some THEN None
                    ELSE Some(new(FALSE, from_unscaled(new_unscaled.m)))

\* checked_round_dp that returns the kept digits q + inc without
\* scaling them back by unit.
checked_round_dp_unscaled(self, S, dp0, mode, oc) ==
    LET scale == S
        dp == Min(dp0, scale)
        drop == scale - dp
    IN  IF drop = 0 THEN Some(self)
        ELSE
        LET p == pow10_u64(drop) IN
        IF p.panic THEN Panic
        ELSE
        LET unit == p.n
            u == unscaled(self)
            q == u \div unit
            r == u % unit
        IN  IF r = 0
            THEN LET e == u64_mul(q, unit, oc)
                 IN  IF e.panic THEN Panic
                     ELSE Some(new(is_negative(self), from_unscaled(e.n)))
            ELSE
            LET inc == should_increment(q, r, unit, is_negative(self), mode)
                q2 == u64_checked_add(q, IF inc THEN 1 ELSE 0)
            IN  IF ~q2.some THEN None
                ELSE Some(new(is_negative(self), from_unscaled(q2.m)))

checked_round_dp(self, S, dp0, mode, oc) ==
    LET scale == S
        dp == Min(dp0, scale)
        drop == scale - dp
    IN  IF drop = 0 THEN Some(self)
        ELSE
        LET p == pow10_u64(drop) IN
        IF p.panic THEN Panic
        ELSE
        LET unit == p.n
            u == unscaled(self)
            q == u \div unit
            r == u % unit
        IN  IF r = 0
            THEN LET e == u64_mul(q, unit, oc)
                 IN  IF e.panic THEN Panic
                     ELSE Some(new(is_negative(self), from_unscaled(e.n)))
            ELSE
            LET inc == should_increment(q, r, unit, is_negative(self), mode)
                q2 == u64_checked_add(q, IF inc THEN 1 ELSE 0)
            IN  IF ~q2.some THEN None
                ELSE
                LET new_unscaled == u64_checked_mul(q2.m, unit)
                IN  IF ~new_unscaled.some THEN None
                    ELSE Some(new(is_negative(self),
                                  from_unscaled(new_unscaled.m)))

round_dp(self, S, dp, mode, oc) ==
    expect(checked_round_dp(self, S, dp, mode, oc))

trunc(self, S, oc) == round_dp(self, S, 0, "TowardZero", oc)

\* floor that rounds toward zero.
floor_toward_zero(self, S, oc) == round_dp(self, S, 0, "TowardZero", oc)

floor(self, S, oc) == round_dp(self, S, 0, "Floor", oc)

ceil(self, S, oc) == round_dp(self, S, 0, "Ceil", oc)

trunc_dp(self, S, dp, oc) == round_dp(self, S, dp, "TowardZero", oc)

\* checked_to_scale whose exact narrowing forgets to divide.
checked_to_scale_undivided(self, S, T, mode) ==
    LET s_from == S
        s_to == T
    IN  IF s_from = s_to
        THEN Some(new(is_negative(self), from_unscaled(unscaled(self))))
        ELSE
        LET mag == unscaled(self) IN
        IF s_to < s_from
        THEN LET drop == s_from - s_to
                 p == pow10_u64(drop)
             IN  IF p.panic THEN Panic
                 ELSE
                 LET unit == p.n
                     q == mag \div unit
                     r == mag % unit
                 IN  IF r = 0
                     THEN Some(new(is_negative(self), from_unscaled(mag)))
                     ELSE
                     LET inc == should_increment(q, r, unit,
                                                 is_negative(self), mode)
                         q2 == u64_checked_add(q, IF inc THEN 1 ELSE 0)
                     IN  IF ~q2.some THEN None
                         ELSE Some(new(is_negative(self),
                                       from_unscaled(q2.m)))
        ELSE LET p == pow10_u64(s_to - s_from)
             IN  IF p.panic THEN Panic
                 ELSE
                 LET new_unscaled == u64_checked_mul(mag, p.n)
                 IN  IF ~new_unscaled.some THEN None
                     ELSE Some(new(is_negative(self),
                                   from_unscaled(new_unscaled.m)))

\* checked_to_scale whose narrowing drops the digits whatever the mode.
checked_to_scale_truncating(self, S, T, mode) ==
    LET s_from == S
        s_to == T
    IN  IF s_from = s_to
        THEN Some(new(is_negative(self), from_unscaled(unscaled(self))))
        ELSE
        LET mag == unscaled(self) IN
        IF s_to < s_from
        THEN LET drop == s_from - s_to
                 p == pow10_u64(drop)
             IN  IF p.panic THEN Panic
                 ELSE Some(new(is_negative(self),
                               from_unscaled(mag \div p.n)))
        ELSE LET p == pow10_u64(s_to - s_from)
             IN  IF p.panic THEN Panic
                 ELSE
                 LET new_unscaled == u64_checked_mul(mag, p.n)
                 IN  IF ~new_unscaled.some THEN None
                     ELSE Some(new(is_negative(self),
                                   from_unscaled(new_unscaled.m)))

\* checked_to_scale whose narrowing is absent where the rounded
\* magnitude at the old scale, (q + inc) * unit, does not fit a word.
checked_to_scale_fitting_old_scale(self, S, T, mode) ==
    LET s_from == S
        s_to == T
    IN  IF s_from = s_to
        THEN Some(new(is_negative(self), from_unscaled(unscaled(self))))
        ELSE
        LET mag == unscaled(self) IN
        IF s_to < s_from
        THEN LET drop == s_from - s_to
                 p == pow10_u64(drop)
             IN  IF p.panic THEN Panic
                 ELSE
                 LET unit == p.n
                     q == mag \div unit
                     r == mag % unit
                 IN  IF r = 0
                     THEN Some(new(is_negative(self), from_unscaled(q)))
                     ELSE
                     LET inc == should_increment(q, r, unit,
                                                 is_negative(self), mode)
                         q2 == u64_checked_add(q, IF inc THEN 1 ELSE 0)
                     IN  IF ~q2.some THEN None
                         ELSE IF ~u64_checked_mul(q2.m, unit).some THEN None
                         ELSE Some(new(is_negative(self),
                                       from_unscaled(q2.m)))
        ELSE LET p == pow10_u64(s_to - s_from)
             IN  IF p.panic THEN Panic
                 ELSE
                 LET new_unscaled == u64_checked_mul(mag, p.n)
                 IN  IF ~new_unscaled.some THEN None
                     ELSE Some(new(is_negative(self),
                                   from_unscaled(new_unscaled.m)))

\* checked_to_scale::<T> on a value of scale S.
checked_to_scale(self, S, T, mode) ==
    LET s_from == S
        s_to == T
    IN  IF s_from = s_to
        THEN Some(new(is_negative(self), from_unscaled(unscaled(self))))
        ELSE
        LET mag == unscaled(self) IN
        IF s_to < s_from
        THEN LET drop == s_from - s_to
                 p == pow10_u64(drop)
             IN  IF p.panic THEN Panic
                 ELSE
                 LET unit == p.n
                     q == mag \div unit
                     r == mag % unit
                 IN  IF r = 0
                     THEN Some(new(is_negative(self), from_unscaled(q)))
                     ELSE
                     LET inc == should_increment(q, r, unit,
                                                 is_negative(self), mode)
                         q2 == u64_checked_add(q, IF inc THEN 1 ELSE 0)
                     IN  IF ~q2.some THEN None
                         ELSE Some(new(is_negative(self),
                                       from_unscaled(q2.m)))
        ELSE LET p == pow10_u64(s_to - s_from)
             IN  IF p.panic THEN Panic
                 ELSE
                 LET new_unscaled == u64_checked_mul(mag, p.n)
                 IN  IF ~new_unscaled.some THEN None
                     ELSE Some(new(is_negative(self),
                                   from_unscaled(new_unscaled.m)))

to_scale(self, S, T, mode) ==
    expect(checked_to_scale(self, S, T, mode))

\* ------------------------------------------------- lib.rs: impl Ord
u64_cmp(x, y) ==
    IF x < y THEN "Less" ELSE IF x > y THEN "Greater" ELSE "Equal"

\* cmp with two negatives ordered like two non-negatives.
cmp_negatives_by_magnitude(self, other) ==
    LET sn == is_negative(self)
        sz == self.mag = 0
        on == is_negative(other)
        oz == other.mag = 0
    IN  CASE sz /\ oz -> "Equal"
          [] ~(sz /\ oz) /\ sn /\ ~on -> "Less"
          [] ~(sz /\ oz) /\ ~sn /\ on -> "Greater"
          [] ~(sz /\ oz) /\ ~sn /\ ~on -> u64_cmp(self.mag, other.mag)
          [] ~(sz /\ oz) /\ sn /\ on -> u64_cmp(self.mag, other.mag)

cmp(self, other) ==
    LET sn == is_negative(self)
        sz == self.mag = 0
        on == is_negative(other)
        oz == other.mag = 0
    IN  CASE sz /\ oz -> "Equal"
          [] ~(sz /\ oz) /\ sn /\ ~on -> "Less"
          [] ~(sz /\ oz) /\ ~sn /\ on -> "Greater"
          [] ~(sz /\ oz) /\ ~sn /\ ~on -> u64_cmp(self.mag, other.mag)
          [] ~(sz /\ oz) /\ sn /\ on -> u64_cmp(other.mag, self.mag)

\* eq that compares the magnitudes only.
eq_magnitude_only(self, other) == self.mag = other.mag

eq(self, other) ==
    LET na == is_negative(self)
        nb == is_negative(other)
    IN  na = nb /\ self.mag = other.mag

\* impl Hash: what the value feeds to the hasher, after what the hasher
\* state was fed before.
hash(self, state) == state \o <<is_negative(self), self.mag>>

\* ------------------------------------------------------ the program
\* scale: the scale S of the caller's current value (its type parameter)
\* v:     the caller's current value
\* last:  the call just made (NoCall between calls): its name, its
\*        receiver a, its right operand or constructor arguments b, the
\*        dp, mode, integer or text it was given, the scale of its
\*        receiver (from) and of its result (to), its outcome out and,
\*        for cmp, the Ordering ord; for eq the bool it returned (flag),
\*        for hash what the hasher was fed (fed) and for the conversions
\*        to the magnitude type the Option<DecimalU64<S>> (mag); for
\*        sum and product the items of the iterator (seq)
VARIABLES scale, v, last

vars == <<scale, v, last>>

Operands == {new(b, m) : b \in Bits, m \in OperandMags}

NoCall ==
    [op |-> "-", a |-> ZERO, b |-> ZERO, dp |-> 0, mode |-> "-",
     from |-> 0, to |-> 0, int |-> 0, text |-> <<>>,
     out |-> Some(ZERO), ord |-> "-", flag |-> FALSE, fed |-> <<>>,
     mag |-> MagNone, seq |-> <<>>]

\* The caller is between two calls.
Running == last = NoCall

\* The caller keeps the value a call returned.
Keep(out) == IF out.kind = "some" THEN out.val ELSE v

\* The i128 and i64 arguments tried: the values within OperandEdge of
\* 0, of the ends of the range of the magnitudes and of the ends of the
\* type.
NearInt(n, k) == (n - OperandEdge <= k) /\ (k <= n + OperandEdge)
I128Args ==
    {k \in (0 - U64_MAX - OperandEdge)..(U64_MAX + OperandEdge) :
        NearInt(0, k) \/ NearInt(U64_MAX, k) \/ NearInt(0 - U64_MAX, k)}
        \cup {I128_MIN, I128_MIN + 1, I128_MAX}
I64Args ==
    {k \in I64_MIN..I64_MAX :
        NearInt(0, k) \/ NearInt(I64_MIN, k) \/ NearInt(I64_MAX, k)}

\* The texts tried: an optional sign and a body, bare or between two
\* blanks; the bodies are the display of the operand magnitudes
\* and of the first magnitude out of range, and texts that are no
\* magnitude.
TextBodies(S) ==
    {DecimalU64_display(m, S) : m \in OperandMags \cup {U64_MAX + 1}}
        \cup {<<>>, <<"-", "1">>, <<"x">>, <<"1", ".">>, <<".", "5">>,
              <<"0", "0", "1">>}
Texts(S) ==
    {p \o g \o t \o p :
        p \in {<<>>, <<" ">>}, g \in {<<>>, <<"+">>, <<"-">>},
        t \in TextBodies(S)}

Init ==
    /\ scale \in Scales
    /\ v = Default
    /\ last = NoCall

\* A constructor of a value of scale S.
Construct(call, S) ==
    /\ last' = [call EXCEPT !.from = S, !.to = S]
    /\ v' = Keep(call.out)
    /\ scale' = IF call.out.kind = "some" THEN S ELSE scale

New ==
    /\ Running
    /\ \E S \in Scales, negative \in Bits, mag \in Mags :
         Construct([NoCall EXCEPT
                        !.op = "new",
                        !.b = [negative |-> negative, mag |-> mag],
                        !.out = Some(new(negative, mag))], S)

\* sdec_unscaled!(S, negative, unscaled)
SdecUnscaled ==
    /\ Running
    /\ \E S \in Scales, negative \in Bits, mag \in OperandMags :
         Construct([NoCall EXCEPT
                        !.op = "sdec_unscaled",
                        !.b = [negative |-> negative, mag |-> mag],
                        !.out = Some(new(negative, from_unscaled(mag)))], S)

FromMag ==
    /\ Running
    /\ \E S \in Scales, mag \in OperandMags :
         Construct([NoCall EXCEPT
                        !.op = "from_mag",
                        !.b = [negative |-> FALSE, mag |-> mag],
                        !.out = Some(from_mag(mag))], S)

\* From<DecimalU64<S>>
From ==
    /\ Running
    /\ \E S \in Scales, mag \in OperandMags :
         Construct([NoCall EXCEPT
                        !.op = "from",
                        !.b = [negative |-> FALSE, mag |-> mag],
                        !.out = Some(from_mag(mag))], S)

TryFromI128 ==
    /\ Running
    /\ \E S \in Scales, value \in I128Args :
         Construct([NoCall EXCEPT
                        !.op = "try_from_i128",
                        !.int = value,
                        !.out = try_from_i128(value)], S)

TryFromI64 ==
    /\ Running
    /\ \E S \in Scales, value \in I64Args :
         Construct([NoCall EXCEPT
                        !.op = "try_from_i64",
                        !.int = value,
                        !.out = try_from_i64(value)], S)

FromStr ==
    /\ Running
    /\ \E S \in Scales :
         \E s \in Texts(S) :
             Construct([NoCall EXCEPT
                            !.op = "from_str",
                            !.text = s,
                            !.out = from_str(s, S)], S)

\* A call on the current value with a right operand, at the same scale.
Binary(op, rhs, out) ==
    /\ last' = [NoCall EXCEPT !.op = op, !.a = v, !.b = rhs,
                              !.from = scale, !.to = scale, !.out = out]
    /\ v' = Keep(out)
    /\ UNCHANGED scale

Unary(op, out) == Binary(op, ZERO, out)

Negated == Running /\ Unary("negated", Some(negated(v)))

\* impl Neg
Neg == Running /\ Unary("neg", Some(negated(v)))

Abs == Running /\ Unary("abs", Some(abs(v)))

\* A call that changes the current value in place.
InPlace(op, rhs, r) ==
    /\ last' = [NoCall EXCEPT !.op = op, !.a = v, !.b = rhs,
                              !.from = scale, !.to = scale, !.out = r.out]
    /\ v' = r.self
    /\ UNCHANGED scale

AbsAssign ==
    /\ Running
    /\ InPlace("abs_assign", ZERO,
               [out |-> Some(abs_assign(v)), self |-> abs_assign(v)])

CheckedAdd ==
    Running /\ \E rhs \in Operands :
        Binary("checked_add", rhs, checked_add(v, rhs))

CheckedSub ==
    Running /\ \E rhs \in Operands :
        Binary("checked_sub", rhs, checked_sub(v, rhs))

CheckedMul ==
    Running /\ \E rhs \in Operands, rnd \in EngineRoundings :
        Binary("checked_mul", rhs, checked_mul(v, rhs, scale, rnd))

CheckedDiv ==
    Running /\ \E rhs \in Operands, rnd \in EngineRoundings :
        Binary("checked_div", rhs, checked_div(v, rhs, scale, rnd))

Add == Running /\ \E rhs \in Operands : Binary("add", rhs, add(v, rhs))

Sub == Running /\ \E rhs \in Operands : Binary("sub", rhs, sub(v, rhs))

Mul ==
    Running /\ \E rhs \in Operands, rnd \in EngineRoundings :
        Binary("mul", rhs, mul(v, rhs, scale, rnd))

Div ==
    Running /\ \E rhs \in Operands, rnd \in EngineRoundings :
        Binary("div", rhs, div(v, rhs, scale, rnd))

AddAssign ==
    Running /\ \E rhs \in Operands :
        InPlace("add_assign", rhs, add_assign(v, rhs))

SubAssign ==
    Running /\ \E rhs \in Operands :
        InPlace("sub_assign", rhs, sub_assign(v, rhs))

MulAssign ==
    Running /\ \E rhs \in Operands, rnd \in EngineRoundings :
        InPlace("mul_assign", rhs, mul_assign(v, rhs, scale, rnd))

DivAssign ==
    Running /\ \E rhs \in Operands, rnd \in EngineRoundings :
        InPlace("div_assign", rhs, div_assign(v, rhs, scale, rnd))

\* The forms with a magnitude on the right; b records it as the
\* non-negative value it stands for.
AddMag ==
    Running /\ \E rhs \in OperandMags :
        Binary("add_mag", from_mag(rhs), add_mag(v, rhs))

SubMag ==
    Running /\ \E rhs \in OperandMags :
        Binary("sub_mag", from_mag(rhs), sub_mag(v, rhs))

AddMagRef ==
    Running /\ \E rhs \in OperandMags :
        Binary("add_mag_ref", from_mag(rhs), add_mag_ref(v, rhs))

SubMagRef ==
    Running /\ \E rhs \in OperandMags :
        Binary("sub_mag_ref", from_mag(rhs), sub_mag_ref(v, rhs))

AddAssignMag ==
    Running /\ \E rhs \in OperandMags :
        InPlace("add_assign_mag", from_mag(rhs),
                add_assign_mag(v, rhs))

SubAssignMag ==
    Running /\ \E rhs \in OperandMags :
        InPlace("sub_assign_mag", from_mag(rhs),
                sub_assign_mag(v, rhs))

AddAssignMagRef ==
    Running /\ \E rhs \in OperandMags :
        InPlace("add_assign_mag_ref", from_mag(rhs),
                add_assign_mag_ref(v, rhs))

SubAssignMagRef ==
    Running /\ \E rhs \in OperandMags :
        InPlace("sub_assign_mag_ref", from_mag(rhs),
                sub_assign_mag_ref(v, rhs))

Rounding(op, dp, mode, out) ==
    /\ last' = [NoCall EXCEPT !.op = op, !.a = v, !.dp = dp, !.mode = mode,
                              !.from = scale, !.to = scale, !.out = out]
    /\ v' = Keep(out)
    /\ UNCHANGED scale

CheckedRoundDp ==
    Running /\ \E dp \in Dps, mode \in RoundingMode, oc \in Bits :
        Rounding("checked_round_dp", dp, mode,
                 checked_round_dp(v, scale, dp, mode, oc))

RoundDp ==
    Running /\ \E dp \in Dps, mode \in RoundingMode, oc \in Bits :
        Rounding("round_dp", dp, mode, round_dp(v, scale, dp, mode, oc))

Trunc ==
    Running /\ \E oc \in Bits :
        Rounding("trunc", 0, "TowardZero", trunc(v, scale, oc))

Floor ==
    Running /\ \E oc \in Bits :
        Rounding("floor", 0, "Floor", floor(v, scale, oc))

Ceil ==
    Running /\ \E oc \in Bits :
        Rounding("ceil", 0, "Ceil", ceil(v, scale, oc))

TruncDp ==
    Running /\ \E dp \in Dps, oc \in Bits :
        Rounding("trunc_dp", dp, "TowardZero", trunc_dp(v, scale, dp, oc))

\* The result is a value of scale T: the caller goes on with it.
Rescale(op, T, mode, out) ==
    /\ last' = [NoCall EXCEPT !.op = op, !.a = v, !.mode = mode,
                              !.from = scale, !.to = T, !.out = out]
    /\ v' = Keep(out)
    /\ scale' = IF out.kind = "some" THEN T ELSE scale

CheckedToScale ==
    Running /\ \E T \in Scales, mode \in RoundingMode :
        Rescale("checked_to_scale", T, mode,
                checked_to_scale(v, scale, T, mode))

ToScale ==
    Running /\ \E T \in Scales, mode \in RoundingMode :
        Rescale("to_scale", T, mode, to_scale(v, scale, T, mode))

Cmp ==
    /\ Running
    /\ \E other \in Operands :
         last' = [NoCall EXCEPT !.op = "cmp", !.a = v, !.b = other,
                                !.from = scale, !.to = scale,
                                !.out = Some(v), !.ord = cmp(v, other)]
    /\ UNCHANGED <<scale, v>>

IntoUnscaledI128 ==
    /\ Running
    /\ last' = [NoCall EXCEPT !.op = "into_unscaled_i128", !.a = v,
                              !.from = scale, !.to = scale,
                              !.out = Some(v),
                              !.int = into_unscaled_i128(v)]
    /\ UNCHANGED <<scale, v>>

TryIntoUnsigned ==
    /\ Running
    /\ last' = [NoCall EXCEPT !.op = "try_into_unsigned", !.a = v,
                              !.from = scale, !.to = scale,
                              !.out = Some(v),
                              !.mag = try_into_unsigned(v)]
    /\ UNCHANGED <<scale, v>>

ExpectNonNegative ==
    /\ Running
    /\ LET r == expect_non_negative(v)
       IN  last' = [NoCall EXCEPT
                        !.op = "expect_non_negative", !.a = v,
                        !.from = scale, !.to = scale,
                        !.out = IF r.panic THEN Panic ELSE Some(v),
                        !.mag = IF r.panic THEN MagNone ELSE MagSome(r.m)]
    /\ UNCHANGED <<scale, v>>

\* Serialize, not human readable
SerializeBinary ==
    /\ Running
    /\ last' = [NoCall EXCEPT !.op = "serialize_binary", !.a = v,
                              !.from = scale, !.to = scale,
                              !.out = Some(v),
                              !.int = serialize_binary(v)]
    /\ UNCHANGED <<scale, v>>

\* Deserialize, not human readable, of an encoded i128
DeserializeBinary ==
    /\ Running
    /\ \E S \in Scales, value \in I128Args :
         Construct([NoCall EXCEPT
                        !.op = "deserialize_binary",
                        !.int = value,
                        !.out = visit_i128(value)], S)

\* impl Display (to_string)
Display ==
    /\ Running
    /\ last' = [NoCall EXCEPT !.op = "display", !.a = v,
                              !.from = scale, !.to = scale,
                              !.out = Some(v), !.text = display(v, scale)]
    /\ UNCHANGED <<scale, v>>

\* impl PartialEq
Eq ==
    /\ Running
    /\ \E other \in Operands :
         last' = [NoCall EXCEPT !.op = "eq", !.a = v, !.b = other,
                                !.from = scale, !.to = scale,
                                !.out = Some(v), !.flag = eq(v, other)]
    /\ UNCHANGED <<scale, v>>

\* impl Hash, with a fresh hasher
Hash ==
    /\ Running
    /\ last' = [NoCall EXCEPT !.op = "hash", !.a = v,
                              !.from = scale, !.to = scale,
                              !.out = Some(v), !.fed = hash(v, <<>>)]
    /\ UNCHANGED <<scale, v>>

\* The caller takes the outcome of the call and goes on.  A panic aborts
\* the process: nothing runs after it.
Return ==
    /\ last # NoCall
    /\ last.out.kind # "panic"
    /\ last' = NoCall
    /\ UNCHANGED <<scale, v>>

Next ==
    \/ Return
    \/ New
    \/ SdecUnscaled
    \/ FromMag
    \/ From
    \/ TryFromI128
    \/ TryFromI64
    \/ FromStr
    \/ Negated
    \/ Neg
    \/ Abs
    \/ AbsAssign
    \/ CheckedAdd
    \/ CheckedSub
    \/ CheckedMul
    \/ CheckedDiv
    \/ Add
    \/ Sub
    \/ Mul
    \/ Div
    \/ AddAssign
    \/ SubAssign
    \/ MulAssign
    \/ DivAssign
    \/ AddMag
    \/ SubMag
    \/ AddMagRef
    \/ SubMagRef
    \/ AddAssignMag
    \/ SubAssignMag
    \/ AddAssignMagRef
    \/ SubAssignMagRef
    \/ CheckedRoundDp
    \/ RoundDp
    \/ CheckedToScale
    \/ ToScale
    \/ Trunc
    \/ Floor
    \/ Ceil
    \/ TruncDp
    \/ Cmp
    \/ TryIntoUnsigned
    \/ ExpectNonNegative
    \/ SerializeBinary
    \/ DeserializeBinary
    \/ Display
    \/ Eq
    \/ Hash
    \/ IntoUnscaledI128

Spec == Init /\ [][Next]_vars

\* ------------------------------------------------ the folding program
\* A caller that sums and multiplies sequences of values of its scale:
\* zero, the smallest unit, one and the largest magnitude, of either
\* sign, up to MaxLen of them.
FoldItems(S) == {new(b, m) : b \in Bits, m \in {0, 1, 10^S, U64_MAX}}

RECURSIVE SeqsOf(_, _)
SeqsOf(items, n) ==
    IF n = 0 THEN {<<>>}
    ELSE LET shorter == SeqsOf(items, n - 1)
         IN  shorter \cup {Append(xs, x) : xs \in shorter, x \in items}

Iterators(S) == SeqsOf(FoldItems(S), MaxLen)

\* A fold over iter at the caller's scale; mode records the rounding of
\* the magnitude engine in a product.
Fold(op, iter, rnd, out) ==
    /\ last' = [NoCall EXCEPT !.op = op, !.seq = iter, !.mode = rnd,
                              !.from = scale, !.to = scale, !.out = out]
    /\ v' = Keep(out)
    /\ UNCHANGED scale

Sum ==
    Running /\ \E iter \in Iterators(scale) :
        Fold("sum", iter, "-", sum(iter))

SumRef ==
    Running /\ \E iter \in Iterators(scale) :
        Fold("sum_ref", iter, "-", sum_ref(iter))

Product ==
    Running /\ \E iter \in Iterators(scale), rnd \in EngineRoundings :
        Fold("product", iter, rnd, product(iter, scale, rnd))

ProductRef ==
    Running /\ \E iter \in Iterators(scale), rnd \in EngineRoundings :
        Fold("product_ref", iter, rnd, product_ref(iter, scale, rnd))

FoldNext ==
    \/ Return
    \/ Sum
    \/ SumRef
    \/ Product
    \/ ProductRef

FoldSpec == Init /\ [][FoldNext]_vars

\* ------------------------------------------------------- properties
\* The signed unscaled integer a value stands for.
Signed(x) == IF x.negative THEN 0 - x.mag ELSE x.mag

Present(out) == out.kind = "some"
Absent(out) == out.kind = "none"

NoNegativeZero(x) == x.negative => x.mag # 0

\* C1: no value obtained through the public API is a negative zero: the
\* current value, every operand and every result has its sign flag set
\* only over a non-zero magnitude, and new(b, m) is negative exactly
\* when b holds and m is not zero.
C1_NoNegativeZero ==
    /\ NoNegativeZero(v)
    /\ NoNegativeZero(last.a)
    /\ NoNegativeZero(last.out.val)
    /\ last.op \in {"new", "sdec_unscaled"} =>
         /\ Present(last.out)
         /\ is_negative(last.out.val) = (last.b.negative /\ last.b.mag # 0)
         /\ last.out.val.mag = last.b.mag

\* C1 witness: new(true, 0) is the non-negative zero.
C1_Witness ==
    /\ last.op = "new"
    /\ last.b = [negative |-> TRUE, mag |-> 0]
    /\ last.out = Some(ZERO)
    /\ v = ZERO

\* C2: checked_add agrees with exact addition of the signed unscaled
\* integers: it is absent exactly when both operands have the same sign
\* and their magnitudes sum to more than U64_MAX; otherwise it is present,
\* its signed value is signed(a) + signed(b), and a zero sum is not
\* negative.
C2_CheckedAddExact ==
    last.op = "checked_add" =>
        LET a == last.a
            b == last.b
            out == last.out
            same == is_negative(a) = is_negative(b)
        IN  /\ Absent(out) <=> (same /\ a.mag + b.mag > U64_MAX)
            /\ ~Absent(out) =>
                 /\ Present(out)
                 /\ Signed(out.val) = Signed(a) + Signed(b)
                 /\ out.val.mag = 0 => ~out.val.negative
                 /\ (~same /\ a.mag > b.mag) =>
                      out.val.negative = a.negative
                 /\ (~same /\ b.mag > a.mag) =>
                      out.val.negative = b.negative

\* C2 witness: at scale 0, MAX + ONE is absent.
C2_Witness ==
    /\ last.op = "checked_add"
    /\ last.from = 0
    /\ last.a = new(FALSE, U64_MAX)
    /\ last.b = ONE(0)
    /\ Absent(last.out)

\* The reference rounding of section 4.3, on exact integers.
RefIncrement(q, r, unit, neg, mode) ==
    CASE mode = "TowardZero" -> 0
      [] mode = "AwayFromZero" -> 1
      [] mode = "Ceil" -> IF neg THEN 0 ELSE 1
      [] mode = "Floor" -> IF neg THEN 1 ELSE 0
      [] mode = "HalfUp" -> IF 2 * r >= unit THEN 1 ELSE 0
      [] mode = "HalfDown" -> IF 2 * r > unit THEN 1 ELSE 0
      [] mode = "HalfEven" ->
           IF 2 * r > unit \/ (2 * r = unit /\ q % 2 = 1) THEN 1 ELSE 0

\* C3: checked_round_dp is the reference algorithm: unchanged when no
\* digit is dropped or the dropped digits are zero, otherwise magnitude
\* (q + inc) * unit with inc decided by the mode, and absent exactly when
\* that magnitude exceeds U64_MAX.
C3_RoundDpReference ==
    last.op = "checked_round_dp" =>
        LET x == last.a
            out == last.out
            S == last.from
            drop == S - (IF last.dp < S THEN last.dp ELSE S)
            unit == 10^drop
            u == x.mag
            q == u \div unit
            r == u % unit
            inc == RefIncrement(q, r, unit, is_negative(x), last.mode)
        IN  IF drop = 0 \/ r = 0
            THEN out = Some(x)
            ELSE /\ Absent(out) <=> (q + inc) * unit > U64_MAX
                 /\ ~Absent(out) =>
                      /\ Present(out)
                      /\ out.val.mag = (q + inc) * unit

\* C3 witness: a tie with an odd kept digit under HalfEven rounds away
\* from zero (-3.5 at scale 1 to dp 0 is -4.0).
C3_Witness ==
    /\ last.op = "checked_round_dp"
    /\ last.mode = "HalfEven"
    /\ last.from = 1
    /\ last.dp = 0
    /\ last.a = new(TRUE, 35)
    /\ last.out = Some(new(TRUE, 40))

\* C4, as claimed: for checked_mul and checked_div on two non-zero
\* magnitudes, a returned result is negative exactly when the operands'
\* signs differ.
C4_SignIsXor ==
    (/\ last.op \in {"checked_mul", "checked_div"}
     /\ last.a.mag # 0
     /\ last.b.mag # 0
     /\ Present(last.out)) =>
        is_negative(last.out.val)
            = (is_negative(last.a) # is_negative(last.b))

\* C4, amended: for checked_mul and checked_div on two non-zero
\* magnitudes, a returned result is negative exactly when the operands'
\* signs differ and the result's magnitude is not zero; a product or
\* quotient below one unit of the scale is the non-negative ZERO.
C4_SignIsXorUnlessZero ==
    (/\ last.op \in {"checked_mul", "checked_div"}
     /\ last.a.mag # 0
     /\ last.b.mag # 0
     /\ Present(last.out)) =>
        /\ is_negative(last.out.val)
             = (/\ is_negative(last.a) # is_negative(last.b)
                /\ last.out.val.mag # 0)
        /\ last.out.val.negative = is_negative(last.out.val)

\* C4 witness: operands of opposite signs whose product is below one
\* unit of the scale.
C4_Witness ==
    /\ last.op = "checked_mul"
    /\ last.a.mag # 0
    /\ last.b.mag # 0
    /\ is_negative(last.a) # is_negative(last.b)
    /\ last.out = Some(ZERO)

\* C5: checked_div is absent whenever the divisor's magnitude is zero,
\* also for a zero numerator, and ZERO / y is the non-negative ZERO for
\* every non-zero y.
C5_DivisionByZero ==
    last.op = "checked_div" =>
        /\ last.b.mag = 0 => Absent(last.out)
        /\ (last.a.mag = 0 /\ last.b.mag # 0) => last.out = Some(ZERO)

\* C5 witness: ZERO / ZERO is absent.
C5_Witness ==
    /\ last.op = "checked_div"
    /\ last.a = ZERO
    /\ last.b = ZERO
    /\ Absent(last.out)

\* The outcome of a panicking form against its checked counterpart's.
Agrees(out, c) ==
    /\ out.kind = "panic" <=> Absent(c)
    /\ out.kind # "panic" => out = c

\* C6: each panicking form aborts exactly when its checked counterpart
\* is absent on the same inputs, and otherwise returns the value the
\* checked form returns.
C6_PanickingMatchesChecked ==
    LET a == last.a
        b == last.b
        S == last.from
    IN  /\ last.op = "add" => Agrees(last.out, checked_add(a, b))
        /\ last.op = "sub" => Agrees(last.out, checked_sub(a, b))
        /\ last.op = "mul" =>
             \E rnd \in EngineRoundings :
                 Agrees(last.out, checked_mul(a, b, S, rnd))
        /\ last.op = "div" =>
             \E rnd \in EngineRoundings :
                 Agrees(last.out, checked_div(a, b, S, rnd))
        /\ last.op = "round_dp" =>
             \E oc \in Bits :
                 Agrees(last.out,
                        checked_round_dp(a, S, last.dp, last.mode, oc))
        /\ last.op = "to_scale" =>
             Agrees(last.out, checked_to_scale(a, S, last.to, last.mode))

\* C6 witness: at scale 0, MAX * 2 aborts.
C6_Witness ==
    /\ last.op = "mul"
    /\ last.from = 0
    /\ last.a = new(FALSE, U64_MAX)
    /\ last.b = new(FALSE, 2)
    /\ last.out.kind = "panic"

CheckedOps ==
    {"checked_add", "checked_sub", "checked_mul", "checked_div",
     "checked_round_dp", "checked_to_scale"}

\* C7: no checked entry point panics; pow10_u64 is only given exponents
\* of its table, and the unchecked product q * unit of the
\* exact-remainder path fits a word.
C7_CheckedNeverPanics ==
    /\ last.op \in CheckedOps => last.out.kind # "panic"
    /\ last.op = "checked_round_dp" =>
         LET drop == last.from - Min(last.dp, last.from)
         IN  /\ drop \in 0..Pow10Limit
             /\ (last.a.mag \div 10^drop) * 10^drop <= U64_MAX
    /\ last.op = "checked_to_scale" =>
         (IF last.to < last.from THEN last.from - last.to
                                 ELSE last.to - last.from) \in 0..Pow10Limit

\* C7 witness: a dp above the scale on a value whose rounding to dp 0
\* would overflow.
C7_Witness ==
    /\ last.op = "checked_round_dp"
    /\ last.dp > last.from
    /\ last.from > 0
    /\ last.a.mag = U64_MAX
    /\ last.out = Some(last.a)

\* C8: widening is exact and independent of the mode: present exactly
\* when u * 10^(T - S) fits a word, then with that magnitude and the
\* sign of the receiver; a conversion to the same scale returns the
\* receiver.
C8_WideningExact ==
    (last.op = "checked_to_scale" /\ last.to >= last.from) =>
        LET x == last.a
            w == x.mag * 10^(last.to - last.from)
        IN  IF w <= U64_MAX
            THEN last.out = Some([negative |-> x.negative, mag |-> w])
            ELSE Absent(last.out)

\* C8 witness: scale 0 value U64_MAX to scale 1 is absent.
C8_Witness ==
    /\ last.op = "checked_to_scale"
    /\ last.from = 0
    /\ last.to = 1
    /\ last.a.mag = U64_MAX
    /\ Absent(last.out)

\* C9: a value widened from S to T > S narrows back to itself under
\* every rounding mode, and that narrowing is never absent.
C9_RescaleRoundTrip ==
    (/\ last.op = "checked_to_scale"
     /\ last.from < last.to
     /\ Present(last.out)) =>
        \A mode \in RoundingMode :
            checked_to_scale(last.out.val, last.to, last.from, mode)
                = Some(last.a)

\* C9 witness: a negative value widened with success.
C9_Witness ==
    /\ last.op = "checked_to_scale"
    /\ last.from < last.to
    /\ is_negative(last.a)
    /\ Present(last.out)
    /\ last.out.val.mag > last.a.mag

IntCmp(x, y) ==
    IF x < y THEN "Less" ELSE IF x > y THEN "Greater" ELSE "Equal"

Le(x, y) == cmp(x, y) # "Greater"

\* C10: cmp is the order of the signed unscaled integers; it is Equal
\* exactly for equal values, antisymmetric and transitive.
C10_CmpIsIntegerOrder ==
    last.op = "cmp" =>
        LET a == last.a
            b == last.b
        IN  /\ last.ord = IntCmp(Signed(a), Signed(b))
            /\ last.ord = "Equal" <=> eq(a, b)
            /\ cmp(b, a) = IntCmp(Signed(b), Signed(a))
            /\ \A c \in Operands :
                 (Le(a, b) /\ Le(b, c)) => Le(a, c)

\* C10 witness: of two negatives the larger magnitude is the smaller.
C10_Witness ==
    /\ last.op = "cmp"
    /\ is_negative(last.a)
    /\ is_negative(last.b)
    /\ last.a.mag > last.b.mag
    /\ last.ord = "Less"

\* C11: == holds exactly for equal normalized signs and equal unscaled
\* magnitudes; it is reflexive, symmetric and transitive; new(true, 0)
\* equals ZERO; the hasher is fed is_negative and the unscaled magnitude,
\* so two equal values feed it the same data.
C11_EqHashConsistent ==
    /\ last.op = "eq" =>
         LET a == last.a
             b == last.b
         IN  /\ last.flag = (/\ is_negative(a) = is_negative(b)
                             /\ unscaled(a) = unscaled(b))
             /\ eq(a, a)
             /\ eq(b, a) = last.flag
             /\ \A c \in Operands : (eq(a, b) /\ eq(b, c)) => eq(a, c)
             /\ last.flag => hash(a, <<>>) = hash(b, <<>>)
    /\ last.op = "hash" =>
         /\ last.fed = <<is_negative(last.a), unscaled(last.a)>>
         /\ \A b \in Operands :
              eq(last.a, b) => hash(b, <<>>) = last.fed
    /\ (last.op = "new" /\ last.b.mag = 0) =>
         /\ Present(last.out)
         /\ eq(ZERO, last.out.val)
         /\ hash(ZERO, <<>>) = hash(last.out.val, <<>>)

\* C11 witness: a negative value and its absolute value are not equal.
C11_Witness ==
    /\ last.op = "eq"
    /\ is_negative(last.a)
    /\ last.b = abs(last.a)
    /\ ~last.flag

IntAbs(k) == IF k < 0 THEN 0 - k ELSE k

\* C12: TryFrom<i128> fails with Overflow exactly when |value| exceeds
\* U64_MAX, the most negative i128 included; otherwise it returns the
\* value of sign value < 0 and magnitude |value|, and into_unscaled_i128
\* gives value back; and TryFrom<i128> of into_unscaled_i128(x) is x.
C12_I128RoundTrip ==
    /\ last.op = "try_from_i128" =>
         LET value == last.int
         IN  IF IntAbs(value) > U64_MAX
             THEN last.out = Err("Overflow")
             ELSE /\ last.out = Some([negative |-> value < 0,
                                       mag |-> IntAbs(value)])
                  /\ into_unscaled_i128(last.out.val) = value
    /\ last.op = "into_unscaled_i128" =>
         /\ last.int = Signed(last.a)
         /\ try_from_i128(last.int) = Some(last.a)

\* C12 witness: the most negative i128 fails with Overflow.
C12_Witness ==
    /\ last.op = "try_from_i128"
    /\ last.int = I128_MIN
    /\ last.out = Err("Overflow")

\* C13: checked_sub(a, b) is checked_add(a, negated(b)): present, with
\* the signed value signed(a) - signed(b), exactly when that difference
\* is within U64_MAX of zero, and absent otherwise; checked_sub(a, a) is
\* ZERO.
C13_CheckedSubIsAddNegated ==
    last.op = "checked_sub" =>
        LET a == last.a
            b == last.b
            d == Signed(a) - Signed(b)
        IN  /\ last.out = checked_add(a, negated(b))
            /\ Present(last.out) <=> IntAbs(d) <= U64_MAX
            /\ ~Present(last.out) => Absent(last.out)
            /\ Present(last.out) =>
                 /\ Signed(last.out.val) = d
                 /\ NoNegativeZero(last.out.val)
            /\ a = b => last.out = Some(ZERO)
            /\ checked_sub(a, a) = Some(ZERO)

\* C13 witness: the most negative value minus one unit is absent.
C13_Witness ==
    /\ last.op = "checked_sub"
    /\ last.a = new(TRUE, U64_MAX)
    /\ last.b = new(FALSE, 1)
    /\ Absent(last.out)

\* C14: for every value x, negated(negated(x)) is x, and x + negated(x)
\* and negated(x) + x are both present and the non-negative ZERO.
C14_SignIdentities ==
    last.op \in {"negated", "neg"} =>
        LET x == last.a
            y == last.out.val
        IN  /\ last.out = Some(negated(x))
            /\ negated(y) = x
            /\ eq(negated(y), x)
            /\ Signed(y) = 0 - Signed(x)
            /\ checked_add(x, y) = Some(ZERO)
            /\ checked_add(y, x) = Some(ZERO)

\* C14 witness: the negative value of the largest magnitude is negated.
C14_Witness ==
    /\ last.op = "negated"
    /\ last.a = new(TRUE, U64_MAX)
    /\ last.out = Some(new(FALSE, U64_MAX))

\* C15: whenever trunc, floor or ceil returns, the result has no
\* fractional digit, differs from the receiver by less than one whole
\* unit (10^S unscaled) and is the receiver itself when the receiver is
\* integer-valued; floor(x) <= x, x <= ceil(x) in the order of cmp, and
\* |trunc(x)| <= |x|.
C15_FloorCeilTrunc ==
    (last.op \in {"trunc", "floor", "ceil"} /\ Present(last.out)) =>
        LET x == last.a
            y == last.out.val
            whole == 10^last.from
        IN  /\ y.mag % whole = 0
            /\ NoNegativeZero(y)
            /\ IntAbs(Signed(y) - Signed(x)) < whole
            /\ x.mag % whole = 0 => y = x
            /\ last.op = "floor" =>
                 (Le(y, x) /\ Signed(y) <= Signed(x))
            /\ last.op = "ceil" =>
                 (Le(x, y) /\ Signed(x) <= Signed(y))
            /\ last.op = "trunc" => y.mag <= x.mag

\* C15 witness: at scale 1, floor(-1.2) is -2.0.
C15_Witness ==
    /\ last.op = "floor"
    /\ last.from = 1
    /\ last.a = new(TRUE, 12)
    /\ last.out = Some(new(TRUE, 20))

\* C16: the text display writes for a value parses back to that value,
\* at every scale; the text begins with "-" exactly when the value is
\* negative, so a zero, new(true, 0) included, is written without a sign
\* and parses to ZERO.
C16_TextRoundTrip ==
    /\ last.op = "display" =>
         LET x == last.a
             t == last.text
         IN  /\ t # <<>>
             /\ (t[1] = "-") <=> is_negative(x)
             /\ from_str(t, last.from) = Some(x)
             /\ x.mag = 0 => (t[1] \in Digit /\ from_str(t, last.from) = Some(ZERO))
    /\ (last.op = "new" /\ last.b.mag = 0) =>
         LET t == display(last.out.val, last.to)
         IN  t[1] \in Digit /\ from_str(t, last.to) = Some(ZERO)

\* C16 witness: at scale 1 the negative half is written "-0.5".
C16_Witness ==
    /\ last.op = "display"
    /\ last.from = 1
    /\ last.a = new(TRUE, 5)
    /\ last.text = <<"-", "0", ".", "5">>

SignChars == {"+", "-"}

\* The text after its one optional leading sign.
Unsigned(t) == IF t # <<>> /\ t[1] \in SignChars THEN Tail(t) ELSE t

\* What C17 says of the parse of the text t with the outcome out: Empty
\* exactly for an empty or sign-only t, InvalidMagnitude exactly when
\* the magnitude parser rejects the non-empty rest of t, and otherwise
\* new(sign is "-", magnitude).
ParsedAs(t, S, out) ==
    LET rest == Unsigned(t)
        mag == DecimalU64_from_str(rest, S)
    IN  /\ out = Err("Empty") <=> rest = <<>>
        /\ out = Err("InvalidMagnitude") <=> (rest # <<>> /\ ~mag.some)
        /\ (rest # <<>> /\ mag.some) =>
             out = Some([negative |-> t[1] = "-" /\ mag.m # 0,
                         mag |-> mag.m])

\* C17, as claimed: the parse of the input text is as ParsedAs says, of
\* the input as it was given.
C17_ParseOfInput ==
    last.op = "from_str" => ParsedAs(last.text, last.from, last.out)

\* C17, amended: the parse of the input text is as ParsedAs says, of
\* the input without its leading and trailing white space; so a blank
\* input fails with Empty, a second sign fails with InvalidMagnitude and
\* a signed zero parses to the non-negative ZERO.
C17_ParseOfTrimmedInput ==
    last.op = "from_str" =>
        /\ ParsedAs(trim(last.text), last.from, last.out)
        /\ last.out.kind \in {"some", "Empty", "InvalidMagnitude"}
        /\ (Present(last.out) /\ last.out.val.mag = 0) => last.out.val = ZERO

\* C17 witness: a text of blanks only fails with Empty.
C17_Witness ==
    /\ last.op = "from_str"
    /\ last.text = <<" ", " ">>
    /\ last.out = Err("Empty")

\* C18: the binary encoding of x is the integer of absolute value the
\* unscaled magnitude, negative exactly when x is, and decoding it gives
\* x back; decoding an integer is rejected exactly when its absolute
\* value exceeds U64_MAX, the most negative i128 included, and otherwise
\* gives the value whose signed unscaled integer it is.
C18_BinaryRoundTrip ==
    /\ last.op = "serialize_binary" =>
         LET x == last.a
             enc == last.int
         IN  /\ IntAbs(enc) = unscaled(x)
             /\ enc < 0 <=> is_negative(x)
             /\ visit_i128(enc) = Some(x)
    /\ last.op = "deserialize_binary" =>
         LET enc == last.int
         IN  /\ ~Present(last.out) <=>
                  (IntAbs(enc) > U64_MAX \/ enc = I128_MIN)
             /\ Present(last.out) =>
                  /\ Signed(last.out.val) = enc
                  /\ NoNegativeZero(last.out.val)
                  /\ serialize_binary(last.out.val) = enc

\* C18 witness: the negative value of the largest magnitude is encoded
\* as the negative integer of that magnitude.
C18_Witness ==
    /\ last.op = "serialize_binary"
    /\ last.a = new(TRUE, U64_MAX)
    /\ last.int = 0 - U64_MAX

\* C19: try_into_unsigned returns the magnitude exactly when the value
\* is not negative, a zero built with the sign bit set included, and is
\* absent exactly when it is negative; expect_non_negative aborts
\* exactly when the value is negative and otherwise returns the same
\* magnitude; from_mag(m) and From<DecimalU64> give a non-negative value
\* whose try_into_unsigned is m.
C19_UnsignedConversions ==
    /\ last.op = "try_into_unsigned" =>
         /\ last.mag.some <=> ~is_negative(last.a)
         /\ last.mag.some => last.mag.m = unscaled(last.a)
         /\ ~last.mag.some => last.mag = MagNone
    /\ last.op = "expect_non_negative" =>
         /\ last.out.kind = "panic" <=> is_negative(last.a)
         /\ last.out.kind # "panic" =>
              /\ last.mag = MagSome(unscaled(last.a))
              /\ last.mag = try_into_unsigned(last.a)
    /\ last.op \in {"from_mag", "from"} =>
         /\ Present(last.out)
         /\ ~is_negative(last.out.val)
         /\ ~last.out.val.negative
         /\ try_into_unsigned(last.out.val) = MagSome(last.b.mag)
    /\ (last.op = "new" /\ last.b.mag = 0) =>
         try_into_unsigned(last.out.val) = MagSome(0)

\* C19 witness: try_into_unsigned of a negative value is absent.
C19_Witness ==
    /\ last.op = "try_into_unsigned"
    /\ is_negative(last.a)
    /\ last.mag = MagNone

\* The sum of the signed unscaled integers of the first k items.
RECURSIVE PrefixSum(_, _)
PrefixSum(xs, k) ==
    IF k = 0 THEN 0 ELSE PrefixSum(xs, k - 1) + Signed(xs[k])

\* The fold of the claim, item by item from the first: the accumulator
\* goes through the checked operation and the fold aborts where that is
\* absent.
RECURSIVE SumFrom(_, _)
SumFrom(acc, xs) ==
    IF xs = <<>> THEN Some(acc)
    ELSE LET r == checked_add(acc, Head(xs))
         IN  IF Present(r) THEN SumFrom(r.val, Tail(xs)) ELSE Panic

RECURSIVE ProductFrom(_, _, _, _)
ProductFrom(acc, xs, S, rnd) ==
    IF xs = <<>> THEN Some(acc)
    ELSE LET r == checked_mul(acc, Head(xs), S, rnd)
         IN  IF Present(r) THEN ProductFrom(r.val, Tail(xs), S, rnd)
             ELSE Panic

\* C20: sum is ((ZERO + x1) + x2) + ... and product is
\* ((ONE * x1) * x2) * ..., ZERO and ONE on the empty sequence; the fold
\* aborts at the first item where the accumulator's checked_add or
\* checked_mul is absent, so a sum aborts exactly when some prefix sum
\* is out of range, whatever the total is; otherwise it is the exact
\* total; the by-reference forms have the outcome of the by-value forms.
C20_FoldsAreLeftFolds ==
    LET xs == last.seq
        S == last.from
    IN  /\ last.op \in {"sum", "sum_ref"} =>
             /\ last.out = SumFrom(ZERO, xs)
             /\ last.out.kind = "panic" <=>
                  \E k \in 1..Len(xs) : IntAbs(PrefixSum(xs, k)) > U64_MAX
             /\ last.out.kind # "panic" =>
                  /\ Present(last.out)
                  /\ Signed(last.out.val) = PrefixSum(xs, Len(xs))
                  /\ NoNegativeZero(last.out.val)
             /\ sum(xs) = sum_ref(xs)
        /\ last.op \in {"product", "product_ref"} =>
             /\ last.out = ProductFrom(ONE(S), xs, S, last.mode)
             /\ product(xs, S, last.mode) = product_ref(xs, S, last.mode)
        /\ (last.op \in {"sum", "sum_ref"} /\ xs = <<>>) =>
             last.out = Some(ZERO)
        /\ (last.op \in {"product", "product_ref"} /\ xs = <<>>) =>
             last.out = Some(ONE(S))

\* C20 witness: at scale 0 the sum of MAX, ONE, -ONE aborts, although
\* the total is MAX.
C20_Witness ==
    /\ last.op = "sum"
    /\ last.from = 0
    /\ last.seq = <<new(FALSE, U64_MAX), ONE(0), new(TRUE, 1)>>
    /\ last.out.kind = "panic"

\* C21: narrowing from scale S to T < S agrees with rounding to dp = T:
\* whenever checked_round_dp(x, T, mode) is present with magnitude m,
\* checked_to_scale::<T>(x, mode) is present with magnitude m / 10^(S-T)
\* and the sign of that rounded value, and the narrowed value widened
\* back to S is that rounded value.
C21_NarrowingIsRounding ==
    (last.op = "checked_to_scale" /\ last.to < last.from) =>
        \A oc \in Bits :
            LET x == last.a
                S == last.from
                T == last.to
                rounded == checked_round_dp(x, S, T, last.mode, oc)
            IN  Present(rounded) =>
                    /\ Present(last.out)
                    /\ last.out.val.mag * 10^(S - T) = rounded.val.mag
                    /\ last.out.val.mag = rounded.val.mag \div 10^(S - T)
                    /\ is_negative(last.out.val) = is_negative(rounded.val)
                    /\ \A back \in RoundingMode :
                         checked_to_scale(last.out.val, T, S, back) = rounded

\* C21 witness: at scale 1, -1.2 narrowed to scale 0 under HalfUp is -1,
\* which widened back is -1.0 and not the original.
C21_Witness ==
    /\ last.op = "checked_to_scale"
    /\ last.from = 1
    /\ last.to = 0
    /\ last.mode = "HalfUp"
    /\ last.a = new(TRUE, 12)
    /\ last.out = Some(new(TRUE, 1))
    /\ checked_to_scale(last.out.val, 0, 1, "TowardZero")
         = Some(new(TRUE, 10))

\* C22, as claimed: a rounding that returns leaves the sign as it was.
C22_SignUnchanged ==
    (last.op = "checked_round_dp" /\ Present(last.out)) =>
        is_negative(last.out.val) = is_negative(last.a)

\* C22, amended: a rounding that returns leaves the sign as it was
\* unless the rounded magnitude is zero: the result is negative exactly
\* when the receiver is negative and the rounded magnitude is not zero,
\* and a negative value whose kept digits are all zero and that is not
\* incremented rounds to the non-negative ZERO.
C22_SignUnchangedUnlessZero ==
    (last.op = "checked_round_dp" /\ Present(last.out)) =>
        /\ is_negative(last.out.val)
             = (is_negative(last.a) /\ last.out.val.mag # 0)
        /\ last.out.val.negative = is_negative(last.out.val)
        /\ last.out.val.mag = 0 => last.out.val = ZERO

\* C22 witness: at scale 1, -0.4 rounded to dp 0 toward zero is the
\* non-negative ZERO.
C22_Witness ==
    /\ last.op = "checked_round_dp"
    /\ last.from = 1
    /\ last.dp = 0
    /\ last.mode = "TowardZero"
    /\ last.a = new(TRUE, 4)
    /\ last.out = Some(ZERO)

AssignOps ==
    {"add_assign", "sub_assign", "mul_assign", "div_assign",
     "add_assign_mag", "sub_assign_mag",
     "add_assign_mag_ref", "sub_assign_mag_ref"}

\* The result of the operator under the compound assignment op, on the
\* left value a and the right operand b.
OperatorOf(op, a, b, S, rnd) ==
    CASE op \in {"add_assign", "add_assign_mag", "add_assign_mag_ref"} ->
             add(a, b)
      [] op \in {"sub_assign", "sub_assign_mag", "sub_assign_mag_ref"} ->
             sub(a, b)
      [] op = "mul_assign" -> mul(a, b, S, rnd)
      [] op = "div_assign" -> div(a, b, S, rnd)

\* C23: a step that performs a compound assignment whose operator
\* succeeds leaves in the left operand exactly the operator's result on
\* the left operand's previous value and the right operand; the copy of
\* the previous value the caller holds (a) is that previous value, and
\* nothing else of the caller changes.
C23_ReadThenReplace ==
    [][(last'.op \in AssignOps /\ Present(last'.out)) =>
          /\ \E rnd \in EngineRoundings :
               last'.out = OperatorOf(last'.op, v, last'.b, scale, rnd)
          /\ v' = last'.out.val
          /\ last'.a = v
          /\ scale' = scale]_vars

\* C23 witness: at scale 1, -0.5 *= 0.5 leaves -0.2 or -0.3 in the left
\* operand.
C23_Witness ==
    /\ last.op = "mul_assign"
    /\ last.from = 1
    /\ last.a = new(TRUE, 5)
    /\ last.b = new(FALSE, 5)
    /\ Present(last.out)
    /\ v = last.out.val
    /\ v.mag \in {2, 3}
    /\ v.negative

\* C24: a conversion to a smaller scale always returns: the kept
\* magnitude q is at most U64_MAX / 10, so q + 1 fits a word;
\* checked_to_scale is present and to_scale does not abort, for every
\* value and mode, also where checked_round_dp to that dp is absent.
C24_NarrowingNeverFails ==
    (last.op \in {"checked_to_scale", "to_scale"}
        /\ last.to < last.from) =>
        LET q == last.a.mag \div 10^(last.from - last.to)
        IN  /\ Present(last.out)
            /\ q <= U64_MAX \div 10
            /\ q + 1 <= U64_MAX
            /\ last.out.val.mag \in {q, q + 1}

\* C24 witness: the largest magnitude is narrowed away from zero, where
\* rounding it at its own scale is absent.
C24_Witness ==
    /\ last.op = "checked_to_scale"
    /\ last.to < last.from
    /\ last.a.mag = U64_MAX
    /\ last.mode = "AwayFromZero"
    /\ Present(last.out)
    /\ last.out.val.mag = (U64_MAX \div 10^(last.from - last.to)) + 1
    /\ \A oc \in Bits :
         Absent(checked_round_dp(last.a, last.from, last.to, last.mode, oc))

\* C25: when the operator under a compound assignment aborts, the left
\* operand is the default value ZERO, which mem::take left in it, and
\* not the value it had before the assignment.
C25_AbortLeavesDefault ==
    (last.op \in AssignOps /\ last.out.kind = "panic") =>
        /\ v = Default
        /\ v = ZERO
        /\ \E rnd \in EngineRoundings :
             OperatorOf(last.op, last.a, last.b, last.from, rnd) = Panic

\* C25 witness: MAX += smallest unit aborts and leaves ZERO where MAX
\* was.
C25_Witness ==
    /\ last.op = "add_assign"
    /\ last.a = new(FALSE, U64_MAX)
    /\ last.b = new(FALSE, 1)
    /\ last.out.kind = "panic"
    /\ v = ZERO

\* C26: a value that checked_round_dp returned for dp is a multiple of
\* 10^(S - dp), and rounding it again to any dp2 >= dp under any mode is
\* present and returns it unchanged.
C26_RoundingIdempotent ==
    (last.op = "checked_round_dp" /\ Present(last.out)) =>
        LET y == last.out.val
            S == last.from
        IN  /\ y.mag % 10^(S - Min(last.dp, S)) = 0
            /\ \A dp2 \in Dps, m2 \in RoundingMode, oc \in Bits :
                 dp2 >= last.dp =>
                     checked_round_dp(y, S, dp2, m2, oc) = Some(y)

\* C26 witness: at scale 1, 3.7 rounded to dp 0 away from zero is 4.0,
\* which a second rounding away from zero leaves alone.
C26_Witness ==
    /\ last.op = "checked_round_dp"
    /\ last.from = 1
    /\ last.dp = 0
    /\ last.mode = "AwayFromZero"
    /\ last.a = new(FALSE, 37)
    /\ last.out = Some(new(FALSE, 40))
    /\ \A oc \in Bits :
         checked_round_dp(last.out.val, 1, 0, "AwayFromZero", oc) = last.out

====
